---- MODULE Spec2Model ----
(***************************************************************************)
(* Quadratic-funding program (program/src/processor.rs, state.rs).         *)
(*                                                                         *)
(* The state is the set of program accounts (Round, Project, Voter) and    *)
(* the token balances the handlers move.  Every handler is an action,      *)
(* enabled when the handler returns Ok (<Handler>Err gives the handler's    *)
(* result, its guards in the order of the code) and then writes the        *)
(* records the handler packs.  An instruction that returns an error or     *)
(* panics leaves every account as it was (the runtime discards the writes  *)
(* of a failed instruction): it is a stuttering step.                      *)
(*                                                                         *)
(* Accounts of the model are owned by the program, have the right length   *)
(* and are rent exempt, so the IncorrectProgramId / InvalidAccountData /   *)
(* AccountNotRentExempt returns of the handlers are not taken, except for  *)
(* a Voter account, which is owned by the system program until InitVoter   *)
(* has allocated and assigned it.                                          *)
(*                                                                         *)
(* Numbers: spl_math's fixed-point unit ONE is 10^12 and BanProject        *)
(* rescales by 1000000 (its square root).  To keep every value inside the  *)
(* model checker's integers the unit is 10^2 here and the rescale is 10;   *)
(* u64 is the range 0..U64Max.  U256 values stay far below 2^256, so of    *)
(* the U256 checked operations only subtraction below zero and division    *)
(* by zero can return None.                                                *)
(***************************************************************************)
EXTENDS Integers, Sequences, FiniteSets, TLC

\* ---------------------------------------------------------------- bounds
Lot == 20               \* tokens move in lots of this many
MaxAmount == 1          \* amounts of Donate / Vote are 0..MaxAmount lots
MaxRatio == 2           \* ratio of StartRound is 0..MaxRatio
InitTokens == 2         \* lots contributor c1 starts with (c2 starts with one)
U64Max == 100             \* largest value of a u64 field
MaxBan == 4              \* BanProject bans this many fixed-point units

\* ------------------------------------------------------- program constants
ONE == 100
BanScale == 10
FeePercent == 5

\* ------------------------------------------------------------- identities
\* The accounts that exist.  A specification draws the accounts of its
\* instructions from these sets or from subsets of them.
Rounds == {"r1", "r2"}
Projects == {"p1", "p2", "p3"}
Users == {"alice", "bob"}
Contributors == {"c1", "c2"}
Vaults == {"va", "vb"}
Dest == "dest"
NoKey == "none"
TokenPrograms == {"spl_token", "other"}
SplTokenId == "spl_token"

Amounts == {k * Lot : k \in 0..MaxAmount}
Ratios == 0..MaxRatio
BanAmounts == {MaxBan * ONE}
VoterKeys == Projects \X Contributors

\* Pubkey::find_program_address(&[owner]) : the authority of a round's vault.
VaultPda(owner) == <<"pda", owner>>
\* Pubkey::find_program_address(&[project, contributor]) : the Voter's address.
VoterPda(p, c) == <<p, c>>
\* The token accounts that exist, and the authority (token-account owner) of each.
VaultAuthority == [v \in Vaults |-> IF v = "va" THEN VaultPda("alice") ELSE VaultPda("bob")]

\* ------------------------------------------------------ fixed-point layer
Abs(x) == IF x < 0 THEN -x ELSE x
HALF == ONE \div 2

\* PreciseNumber::checked_mul / checked_div (rhs # 0): rounding_correction is ONE/2.
PreciseMul(a, b) == (a * b + HALF) \div ONE
PreciseDiv(a, b) == (a * ONE + HALF) \div b

\* PreciseNumber::almost_eq with precision(): below one unit of the last place here.
AlmostEq(a, b) == Abs(a - b) < 1

\* PreciseNumber::newtonian_root_approximation for root = 2:
\*   guess' = ((root - 1) * guess + self / guess^(root - 1)) / root
RECURSIVE NewtonianRoot(_, _, _)
NewtonianRoot(x, guess, iterations) ==
    IF iterations = 0 THEN guess
    ELSE LET first == PreciseMul(ONE, guess)
             second == PreciseDiv(x, guess)
             next == PreciseDiv(first + second, 2 * ONE)
         IN  IF AlmostEq(guess, next) THEN next
             ELSE NewtonianRoot(x, next, iterations - 1)

\* PreciseNumber::sqrt: zero for zero, else Newton's method from (self + 1) / 2,
\* at most MAX_APPROXIMATION_ITERATIONS = 100 rounds.
PreciseSqrt(x) ==
    IF x = 0 THEN 0
    ELSE NewtonianRoot(x, PreciseDiv(x + ONE, 2 * ONE), 100)

\* PreciseNumber::checked_pow: square-and-multiply over the exponent's bits.
RECURSIVE PowLoop(_, _, _)
PowLoop(result, squared, exponent) ==
    IF exponent = 0 THEN result
    ELSE LET sq == PreciseMul(squared, squared)
         IN  PowLoop(IF exponent % 2 # 0 THEN PreciseMul(result, sq) ELSE result,
                     sq, exponent \div 2)

PrecisePow(v, exponent) ==
    PowLoop(IF exponent % 2 = 0 THEN ONE ELSE v, v, exponent \div 2)

\* ------------------------------------------------------------------ state
VARIABLES
    round,      \* Rounds -> Round record (state.rs Round)
    project,    \* Projects -> Project record (state.rs Project)
    voter,      \* VoterKeys -> Voter record (state.rs Voter)
    bal,        \* token account -> amount held (spl_token Account.amount)
    paid,       \* history: Projects -> tokens transferred by Withdraw
    feeOf,      \* history: Projects -> fee computed by the project's Withdraw
    wcount,     \* history: Projects -> number of Withdraw transfers made
    feeOut,     \* history: Rounds -> tokens transferred by WithdrawFee
    banned      \* history: Projects -> a BanProject has changed the project

vars == <<round, project, voter, bal, paid, feeOf, wcount, feeOut, banned>>

TokenAccounts == Contributors \cup Vaults \cup {Dest}

\* Round::default(), Project::default(), Voter::default()
RoundDefault ==
    [status |-> "Uninitialized", ratio |-> 0, fund |-> 0, fee |-> 0,
     project_number |-> 0, vault |-> NoKey, owner |-> NoKey, area |-> 0,
     total_area |-> 0, top_area |-> 0, min_area |-> 0, min_area_p |-> NoKey]

ProjectDefault ==
    [round |-> NoKey, owner |-> NoKey, withdraw |-> FALSE, votes |-> 0,
     area |-> 0, area_sqrt |-> 0]

VoterDefault == [is_initialized |-> FALSE, votes |-> 0, votes_sqrt |-> 0]

\* IsInitialized for Round / Project / Voter
RoundIsInitialized(rd) == rd.status # "Uninitialized"
ProjectIsInitialized(pj) == pj.round # NoKey
VoterIsInitialized(vt) == vt.is_initialized

Init ==
    /\ round = [r \in Rounds |-> RoundDefault]
    /\ project = [p \in Projects |-> ProjectDefault]
    /\ voter = [k \in VoterKeys |-> VoterDefault]
    /\ bal = [a \in TokenAccounts |-> IF a = "c1" THEN InitTokens * Lot ELSE IF a = "c2" THEN Lot ELSE 0]
    /\ paid = [p \in Projects |-> 0]
    /\ feeOf = [p \in Projects |-> 0]
    /\ wcount = [p \in Projects |-> 0]
    /\ feeOut = [r \in Rounds |-> 0]
    /\ banned = [p \in Projects |-> FALSE]

\* spl_token transfer of `amount` out of `from`: the authority must be the
\* account's and have signed (authOk), and the balance must cover the amount.
TransferOk(from, authOk, amount) == authOk /\ bal[from] >= amount

Transfer(from, to, amount) ==
    IF from = to THEN bal
    ELSE [bal EXCEPT ![from] = @ - amount, ![to] = @ + amount]

\* ------------------------------------------------------------- StartRound
\* Mutation of StartRoundErr: the is_initialized() check is missing.
StartRoundErr_NoInitCheck(r, owner, vault) ==
    IF VaultAuthority[vault] # VaultPda(owner) THEN "OwnerMismatch" ELSE "Ok"

StartRoundErr(r, owner, vault) ==
    IF RoundIsInitialized(round[r]) THEN "AccountAlreadyInitialized"
    ELSE IF VaultAuthority[vault] # VaultPda(owner) THEN "OwnerMismatch"
    ELSE "Ok"

StartRoundRecord(r, owner, vault, ratio) ==
    [round[r] EXCEPT !.status = "Ongoing", !.ratio = ratio, !.fund = bal[vault],
                     !.owner = owner, !.vault = vault, !.area = 0]

StartRound(r, owner, vault, ratio) ==
    /\ StartRoundErr(r, owner, vault) = "Ok"
    /\ round' = [round EXCEPT ![r] = StartRoundRecord(r, owner, vault, ratio)]
    /\ UNCHANGED <<project, voter, bal, paid, feeOf, wcount, feeOut, banned>>

\* ----------------------------------------------------------------- Donate
\* Mutation of DonateErr: round.fund + amount is not checked.
DonateErr_NoOverflowCheck(r, from, to, amount, tp, authOk) ==
    IF ~RoundIsInitialized(round[r]) THEN "UninitializedAccount"
    ELSE IF round[r].status # "Ongoing" THEN "RoundStatusError"
    ELSE IF to # round[r].vault THEN "VaultMismatch"
    ELSE IF tp # SplTokenId THEN "UnexpectedTokenProgramID"
    ELSE IF ~TransferOk(from, authOk, amount) THEN "TransferFailed"
    ELSE "Ok"

\* Mutation of DonateErr: the result of the transfer is ignored.
DonateErr_IgnoreTransfer(r, from, to, amount, tp, authOk) ==
    IF ~RoundIsInitialized(round[r]) THEN "UninitializedAccount"
    ELSE IF round[r].status # "Ongoing" THEN "RoundStatusError"
    ELSE IF to # round[r].vault THEN "VaultMismatch"
    ELSE IF tp # SplTokenId THEN "UnexpectedTokenProgramID"
    ELSE IF round[r].fund + amount > U64Max THEN "Panic"
    ELSE "Ok"

DonateErr(r, from, to, amount, tp, authOk) ==
    IF ~RoundIsInitialized(round[r]) THEN "UninitializedAccount"
    ELSE IF round[r].status # "Ongoing" THEN "RoundStatusError"
    ELSE IF to # round[r].vault THEN "VaultMismatch"
    ELSE IF tp # SplTokenId THEN "UnexpectedTokenProgramID"
    ELSE IF ~TransferOk(from, authOk, amount) THEN "TransferFailed"
    ELSE IF round[r].fund + amount > U64Max THEN "Panic"
    ELSE "Ok"

DonateRecord(r, amount) == [round[r] EXCEPT !.fund = @ + amount]

Donate(r, from, to, amount, tp, authOk) ==
    /\ DonateErr(r, from, to, amount, tp, authOk) = "Ok"
    /\ round' = [round EXCEPT ![r] = DonateRecord(r, amount)]
    /\ bal' = Transfer(from, to, amount)
    /\ UNCHANGED <<project, voter, paid, feeOf, wcount, feeOut, banned>>

\* -------------------------------------------------------- RegisterProject
\* Mutation of RegisterProjectErr: the is_initialized() check is missing.
RegisterProjectErr_NoInitCheck(p, r) ==
    IF ~RoundIsInitialized(round[r]) THEN "UninitializedAccount"
    ELSE IF round[r].status # "Ongoing" THEN "RoundStatusError"
    ELSE IF round[r].project_number + 1 > U64Max THEN "Panic"
    ELSE "Ok"

RegisterProjectErr(p, r) ==
    IF ~RoundIsInitialized(round[r]) THEN "UninitializedAccount"
    ELSE IF round[r].status # "Ongoing" THEN "RoundStatusError"
    ELSE IF ProjectIsInitialized(project[p]) THEN "AccountAlreadyInitialized"
    ELSE IF round[r].project_number + 1 > U64Max THEN "Panic"
    ELSE "Ok"

RegisterProjectRecord(p, r, owner) ==
    [project[p] EXCEPT !.round = r, !.owner = owner, !.withdraw = FALSE,
                       !.votes = 0, !.area = 0]

RegisterProjectRound(r) == [round[r] EXCEPT !.project_number = @ + 1]

RegisterProject(p, r, owner) ==
    /\ RegisterProjectErr(p, r) = "Ok"
    /\ project' = [project EXCEPT ![p] = RegisterProjectRecord(p, r, owner)]
    /\ round' = [round EXCEPT ![r] = RegisterProjectRound(r)]
    /\ UNCHANGED <<voter, bal, paid, feeOf, wcount, feeOut, banned>>

\* -------------------------------------------------------------- InitVoter
\* Mutation of InitVoterErr: an initialized voter record is accepted.
InitVoterErr_NoInitCheck(nv, c, p) ==
    IF ~ProjectIsInitialized(project[p]) THEN "UninitializedAccount"
    ELSE IF nv # VoterPda(p, c) THEN "InvokeFailed"
    ELSE "Ok"

\* The system program's allocate / assign succeed only on the address the seeds
\* (project, token holder) sign for, and only while it is still unallocated.
InitVoterErr(nv, c, p) ==
    IF ~ProjectIsInitialized(project[p]) THEN "UninitializedAccount"
    ELSE IF nv # VoterPda(p, c) THEN "InvokeFailed"
    ELSE IF VoterIsInitialized(voter[nv]) THEN "InvokeFailed"
    ELSE "Ok"

InitVoterRecord(nv) ==
    [voter[nv] EXCEPT !.is_initialized = TRUE, !.votes = 0, !.votes_sqrt = 0]

InitVoter(nv, c, p) ==
    /\ InitVoterErr(nv, c, p) = "Ok"
    /\ voter' = [voter EXCEPT ![nv] = InitVoterRecord(nv)]
    /\ UNCHANGED <<round, project, bal, paid, feeOf, wcount, feeOut, banned>>

\* ------------------------------------------------------------------- Vote
\* new_votes_sqrt: sqrt of the voter's new cumulative votes, as a PreciseNumber.
NewVotesSqrt(vk, amount) == PreciseSqrt((voter[vk].votes + amount) * ONE)

\* project_area_sqrt - voter.votes_sqrt + new_votes_sqrt
\* Mutation of VoteAreaSqrt: the voter's old root is not subtracted.
VoteAreaSqrt_KeepOldRoot(p, vk, amount) ==
    project[p].area_sqrt + NewVotesSqrt(vk, amount)

VoteAreaSqrt(p, vk, amount) ==
    project[p].area_sqrt - voter[vk].votes_sqrt + NewVotesSqrt(vk, amount)

\* project.area = project_area_sqrt.checked_pow(1)
VoteArea(p, vk, amount) == PrecisePow(VoteAreaSqrt(p, vk, amount), 1)

\* The unwrap()s of the handler that can meet None.
VotePanics(r, p, vk, amount) ==
    \/ round[r].area < project[p].area
    \/ voter[vk].votes + amount > U64Max
    \/ project[p].area_sqrt < voter[vk].votes_sqrt
    \/ project[p].votes + amount > U64Max

\* Mutation of VoteErr: the voter address is not compared with the derived one.
VoteErr_NoVoterCheck(r, p, vk, from, to, amount, tp, authOk) ==
    IF ~RoundIsInitialized(round[r]) THEN "UninitializedAccount"
    ELSE IF round[r].status # "Ongoing" THEN "RoundStatusError"
    ELSE IF to # round[r].vault THEN "VaultMismatch"
    ELSE IF ~ProjectIsInitialized(project[p]) THEN "UninitializedAccount"
    ELSE IF project[p].round # r THEN "RoundMismatch"
    ELSE IF ~VoterIsInitialized(voter[vk]) THEN "IncorrectProgramId"
    ELSE IF tp # SplTokenId THEN "UnexpectedTokenProgramID"
    ELSE IF ~TransferOk(from, authOk, amount) THEN "TransferFailed"
    ELSE IF VotePanics(r, p, vk, amount) THEN "Panic"
    ELSE "Ok"

VoteErr(r, p, vk, from, to, amount, tp, authOk) ==
    IF ~RoundIsInitialized(round[r]) THEN "UninitializedAccount"
    ELSE IF round[r].status # "Ongoing" THEN "RoundStatusError"
    ELSE IF to # round[r].vault THEN "VaultMismatch"
    ELSE IF ~ProjectIsInitialized(project[p]) THEN "UninitializedAccount"
    ELSE IF project[p].round # r THEN "RoundMismatch"
    ELSE IF ~VoterIsInitialized(voter[vk]) THEN "IncorrectProgramId"
    ELSE IF vk # VoterPda(p, from) THEN "VoterMismatch"
    ELSE IF tp # SplTokenId THEN "UnexpectedTokenProgramID"
    ELSE IF ~TransferOk(from, authOk, amount) THEN "TransferFailed"
    ELSE IF VotePanics(r, p, vk, amount) THEN "Panic"
    ELSE "Ok"

VoteProject(p, vk, amount) ==
    [project[p] EXCEPT !.area = VoteArea(p, vk, amount),
                       !.area_sqrt = VoteAreaSqrt(p, vk, amount),
                       !.votes = @ + amount]

\* Mutation of VoteVoter: votes_sqrt is not updated.
VoteVoter_StaleRoot(vk, amount) ==
    [voter[vk] EXCEPT !.votes = @ + amount]

VoteVoter(vk, amount) ==
    [voter[vk] EXCEPT !.votes = @ + amount, !.votes_sqrt = NewVotesSqrt(vk, amount)]

\* round.top_area / min_area / min_area_p after the vote
VoteExtrema(rd, p, votes) ==
    LET top == IF votes > rd.top_area THEN votes ELSE rd.top_area IN
    IF rd.min_area = 0 \/ votes < rd.min_area
    THEN [rd EXCEPT !.top_area = top, !.min_area = votes, !.min_area_p = p]
    ELSE IF rd.min_area_p = p
    THEN [rd EXCEPT !.top_area = top, !.min_area = votes]
    ELSE [rd EXCEPT !.top_area = top]

\* round.area - old project.area + new project.area
VoteRoundArea(r, p, vk, amount) ==
    round[r].area - project[p].area + VoteArea(p, vk, amount)

VoteRound(r, p, vk, amount) ==
    LET area == VoteRoundArea(r, p, vk, amount)
        ex == VoteExtrema(round[r], p, VoteArea(p, vk, amount) \div ONE)
    IN  [ex EXCEPT !.area = area, !.total_area = area \div ONE]

Vote(r, p, vk, from, to, amount, tp, authOk) ==
    /\ VoteErr(r, p, vk, from, to, amount, tp, authOk) = "Ok"
    /\ round' = [round EXCEPT ![r] = VoteRound(r, p, vk, amount)]
    /\ project' = [project EXCEPT ![p] = VoteProject(p, vk, amount)]
    /\ voter' = [voter EXCEPT ![vk] = VoteVoter(vk, amount)]
    /\ bal' = Transfer(from, to, amount)
    /\ UNCHANGED <<paid, feeOf, wcount, feeOut, banned>>

\* --------------------------------------------------------------- Withdraw
\* a = total_area / project_number, the per-project average of the capping block
CapAverage(rd) == rd.total_area \div rd.project_number

\* d = (t - a) + (a - m) * ratio
CapSpread(rd) ==
    (rd.top_area - CapAverage(rd)) + (CapAverage(rd) - rd.min_area) * rd.ratio

\* s = (ratio - 1) * a / d
\* Mutation of CapShrink: ratio instead of ratio - 1.
CapShrink_NoMinusOne(rd) == (rd.ratio * CapAverage(rd)) \div CapSpread(rd)

CapShrink(rd) == ((rd.ratio - 1) * CapAverage(rd)) \div CapSpread(rd)

\* The unwrap()s of the capping block that can meet None.
CapPanics(rd) ==
    /\ rd.total_area > 0
    /\ \/ rd.project_number = 0
       \/ rd.top_area < CapAverage(rd)
       \/ CapAverage(rd) < rd.min_area
       \/ CapSpread(rd) > 0 /\ rd.ratio < 1

\* `votes` after the capping block (no unwrap of the block meets None)
CappedVotes(rd, votes) ==
    IF rd.total_area > 0 /\ CapSpread(rd) > 0 /\ CapShrink(rd) < 1
    THEN IF votes > CapAverage(rd)
         THEN CapAverage(rd) + CapShrink(rd) * (votes - CapAverage(rd))
         ELSE votes + (CapAverage(rd) - votes) * (1 - CapShrink(rd))
    ELSE votes

\* amount = project.votes + fund * votes / total_area (total_area # 0)
PayoutBase(rd, pj) ==
    pj.votes + (rd.fund * CappedVotes(rd, pj.area \div ONE)) \div rd.total_area

\* fee = amount * 5 / 100
WithdrawFeeOf(amount) == (amount * FeePercent) \div 100

\* Mutation of WithdrawAmount: the fee is not deducted.
WithdrawAmount_NoFee(rd, pj) == PayoutBase(rd, pj)

WithdrawAmount(rd, pj) == PayoutBase(rd, pj) - WithdrawFeeOf(PayoutBase(rd, pj))

\* The unwrap()s and as_u64()s before the transfer that can meet None / overflow.
WithdrawPanics(rd, pj) ==
    \/ CapPanics(rd)
    \/ rd.total_area = 0
    \/ WithdrawAmount(rd, pj) > U64Max

\* The transfer out of `vault` signed with the seeds of the round owner's address.
WithdrawTransferOk(rd, vault, vaultOwner, amount) ==
    /\ vaultOwner = VaultPda(rd.owner)
    /\ TransferOk(vault, VaultAuthority[vault] = vaultOwner, amount)

\* Mutation of WithdrawErr: the round.status check is missing.
WithdrawErr_NoStatusCheck(r, vault, vaultOwner, p, owner, signer, tp) ==
    IF ~RoundIsInitialized(round[r]) THEN "UninitializedAccount"
    ELSE IF ~ProjectIsInitialized(project[p]) THEN "UninitializedAccount"
    ELSE IF project[p].round # r THEN "RoundMismatch"
    ELSE IF project[p].withdraw THEN "ProjectAlreadyWithdraw"
    ELSE IF ~signer THEN "MissingRequiredSignature"
    ELSE IF project[p].owner # owner THEN "OwnerMismatch"
    ELSE IF tp # SplTokenId THEN "UnexpectedTokenProgramID"
    ELSE IF WithdrawPanics(round[r], project[p]) THEN "Panic"
    ELSE IF ~WithdrawTransferOk(round[r], vault, vaultOwner,
                                WithdrawAmount(round[r], project[p]))
         THEN "TransferFailed"
    ELSE IF WithdrawFeeOf(PayoutBase(round[r], project[p])) > U64Max
            \/ round[r].fee + WithdrawFeeOf(PayoutBase(round[r], project[p])) > U64Max
         THEN "Panic"
    ELSE "Ok"

\* Mutation of WithdrawErr: project.owner is not compared with the signer.
WithdrawErr_NoOwnerCheck(r, vault, vaultOwner, p, owner, signer, tp) ==
    IF ~RoundIsInitialized(round[r]) THEN "UninitializedAccount"
    ELSE IF round[r].status # "Finished" THEN "RoundStatusError"
    ELSE IF ~ProjectIsInitialized(project[p]) THEN "UninitializedAccount"
    ELSE IF project[p].round # r THEN "RoundMismatch"
    ELSE IF project[p].withdraw THEN "ProjectAlreadyWithdraw"
    ELSE IF ~signer THEN "MissingRequiredSignature"
    ELSE IF tp # SplTokenId THEN "UnexpectedTokenProgramID"
    ELSE IF WithdrawPanics(round[r], project[p]) THEN "Panic"
    ELSE IF ~WithdrawTransferOk(round[r], vault, vaultOwner,
                                WithdrawAmount(round[r], project[p]))
         THEN "TransferFailed"
    ELSE IF WithdrawFeeOf(PayoutBase(round[r], project[p])) > U64Max
            \/ round[r].fee + WithdrawFeeOf(PayoutBase(round[r], project[p])) > U64Max
         THEN "Panic"
    ELSE "Ok"

\* Mutation of WithdrawErr: the project.withdraw check is missing.
WithdrawErr_NoWithdrawnCheck(r, vault, vaultOwner, p, owner, signer, tp) ==
    IF ~RoundIsInitialized(round[r]) THEN "UninitializedAccount"
    ELSE IF round[r].status # "Finished" THEN "RoundStatusError"
    ELSE IF ~ProjectIsInitialized(project[p]) THEN "UninitializedAccount"
    ELSE IF project[p].round # r THEN "RoundMismatch"
    ELSE IF ~signer THEN "MissingRequiredSignature"
    ELSE IF project[p].owner # owner THEN "OwnerMismatch"
    ELSE IF tp # SplTokenId THEN "UnexpectedTokenProgramID"
    ELSE IF WithdrawPanics(round[r], project[p]) THEN "Panic"
    ELSE IF ~WithdrawTransferOk(round[r], vault, vaultOwner,
                                WithdrawAmount(round[r], project[p]))
         THEN "TransferFailed"
    ELSE "Ok"

WithdrawErr(r, vault, vaultOwner, p, owner, signer, tp) ==
    IF ~RoundIsInitialized(round[r]) THEN "UninitializedAccount"
    ELSE IF round[r].status # "Finished" THEN "RoundStatusError"
    ELSE IF ~ProjectIsInitialized(project[p]) THEN "UninitializedAccount"
    ELSE IF project[p].round # r THEN "RoundMismatch"
    ELSE IF project[p].withdraw THEN "ProjectAlreadyWithdraw"
    ELSE IF ~signer THEN "MissingRequiredSignature"
    ELSE IF project[p].owner # owner THEN "OwnerMismatch"
    ELSE IF tp # SplTokenId THEN "UnexpectedTokenProgramID"
    ELSE IF WithdrawPanics(round[r], project[p]) THEN "Panic"
    ELSE IF ~WithdrawTransferOk(round[r], vault, vaultOwner,
                                WithdrawAmount(round[r], project[p]))
         THEN "TransferFailed"
    ELSE IF WithdrawFeeOf(PayoutBase(round[r], project[p])) > U64Max
            \/ round[r].fee + WithdrawFeeOf(PayoutBase(round[r], project[p])) > U64Max
         THEN "Panic"
    ELSE "Ok"

WithdrawProject(p) == [project[p] EXCEPT !.withdraw = TRUE]

WithdrawRound(r, p) ==
    [round[r] EXCEPT !.fee = @ + WithdrawFeeOf(PayoutBase(round[r], project[p]))]

\* The payout goes to the token account `to` the caller supplies.
Withdraw(r, vault, vaultOwner, p, owner, signer, tp, to) ==
    /\ WithdrawErr(r, vault, vaultOwner, p, owner, signer, tp) = "Ok"
    /\ project' = [project EXCEPT ![p] = WithdrawProject(p)]
    /\ round' = [round EXCEPT ![r] = WithdrawRound(r, p)]
    /\ bal' = Transfer(vault, to, WithdrawAmount(round[r], project[p]))
    /\ paid' = [paid EXCEPT ![p] = @ + WithdrawAmount(round[r], project[p])]
    /\ feeOf' = [feeOf EXCEPT ![p] = @ + WithdrawFeeOf(PayoutBase(round[r], project[p]))]
    /\ wcount' = [wcount EXCEPT ![p] = @ + 1]
    /\ UNCHANGED <<voter, feeOut, banned>>

\* --------------------------------------------------------------- EndRound
\* Mutation of EndRoundErr: the status check is missing.
EndRoundErr_NoStatusCheck(r, owner, signer) ==
    IF ~RoundIsInitialized(round[r]) THEN "UninitializedAccount"
    ELSE IF owner # round[r].owner THEN "OwnerMismatch"
    ELSE IF ~signer THEN "MissingRequiredSignature"
    ELSE "Ok"

EndRoundErr(r, owner, signer) ==
    IF ~RoundIsInitialized(round[r]) THEN "UninitializedAccount"
    ELSE IF round[r].status # "Ongoing" THEN "RoundStatusError"
    ELSE IF owner # round[r].owner THEN "OwnerMismatch"
    ELSE IF ~signer THEN "MissingRequiredSignature"
    ELSE "Ok"

EndRoundRecord(r) == [round[r] EXCEPT !.status = "Finished"]

EndRound(r, owner, signer) ==
    /\ EndRoundErr(r, owner, signer) = "Ok"
    /\ round' = [round EXCEPT ![r] = EndRoundRecord(r)]
    /\ UNCHANGED <<project, voter, bal, paid, feeOf, wcount, feeOut, banned>>

\* ------------------------------------------------------------ WithdrawFee
WithdrawFeeErr(r, owner, signer, vault, vaultOwner, tp) ==
    IF ~RoundIsInitialized(round[r]) THEN "UninitializedAccount"
    ELSE IF round[r].status # "Finished" THEN "RoundStatusError"
    ELSE IF owner # round[r].owner THEN "OwnerMismatch"
    ELSE IF ~signer THEN "MissingRequiredSignature"
    ELSE IF vault # round[r].vault THEN "VaultMismatch"
    ELSE IF tp # SplTokenId THEN "UnexpectedTokenProgramID"
    ELSE IF ~WithdrawTransferOk(round[r], vault, vaultOwner, round[r].fee)
         THEN "TransferFailed"
    ELSE "Ok"

\* Mutation of WithdrawFeeRecord: round.fee is not reset.
WithdrawFeeRecord_NoReset(r) == round[r]

WithdrawFeeRecord(r) == [round[r] EXCEPT !.fee = 0]

WithdrawFee(r, owner, signer, vault, vaultOwner, tp, to) ==
    /\ WithdrawFeeErr(r, owner, signer, vault, vaultOwner, tp) = "Ok"
    /\ round' = [round EXCEPT ![r] = WithdrawFeeRecord(r)]
    /\ bal' = Transfer(vault, to, round[r].fee)
    /\ feeOut' = [feeOut EXCEPT ![r] = @ + round[r].fee]
    /\ UNCHANGED <<project, voter, paid, feeOf, wcount, banned>>

\* ------------------------------------------------------------- BanProject
\* Mutation of BanProjectErr: the owner need not have signed.
BanProjectErr_NoSignerCheck(r, owner, signer, p, banAmount) ==
    IF ~RoundIsInitialized(round[r]) THEN "UninitializedAccount"
    ELSE IF round[r].status # "Ongoing" THEN "RoundStatusError"
    ELSE IF owner # round[r].owner THEN "OwnerMismatch"
    ELSE IF ~ProjectIsInitialized(project[p]) THEN "UninitializedAccount"
    ELSE IF project[p].area < banAmount THEN "Panic"
    ELSE IF round[r].area < banAmount THEN "Panic"
    ELSE "Ok"

BanProjectErr(r, owner, signer, p, banAmount) ==
    IF ~RoundIsInitialized(round[r]) THEN "UninitializedAccount"
    ELSE IF round[r].status # "Ongoing" THEN "RoundStatusError"
    ELSE IF owner # round[r].owner THEN "OwnerMismatch"
    ELSE IF ~signer THEN "MissingRequiredSignature"
    ELSE IF ~ProjectIsInitialized(project[p]) THEN "UninitializedAccount"
    ELSE IF project[p].area < banAmount THEN "Panic"
    ELSE IF round[r].area < banAmount THEN "Panic"
    ELSE "Ok"

\* project.area_sqrt = sqrt(area / ONE) * 1000000
BanAreaSqrt(area) == PreciseSqrt(area \div ONE) * BanScale

BanProjectRecord(p, banAmount) ==
    [project[p] EXCEPT !.area = @ - banAmount,
                       !.area_sqrt = BanAreaSqrt(project[p].area - banAmount)]

\* Mutation of BanProjectRound: round.area is not reduced.
BanProjectRound_NoDecrement(r, banAmount) == round[r]

BanProjectRound(r, banAmount) == [round[r] EXCEPT !.area = @ - banAmount]

BanProject(r, owner, signer, p, banAmount) ==
    /\ BanProjectErr(r, owner, signer, p, banAmount) = "Ok"
    /\ round' = [round EXCEPT ![r] = BanProjectRound(r, banAmount)]
    /\ project' = [project EXCEPT ![p] = BanProjectRecord(p, banAmount)]
    /\ banned' = [banned EXCEPT ![p] = TRUE]
    /\ UNCHANGED <<voter, bal, paid, feeOf, wcount, feeOut>>

\* ------------------------------------------------------------ the program
\* Processor::process: one instruction at a time, with any accounts and data
\* drawn from the given sets: rounds RS, projects PS, round owners ROS, project
\* owners POS, ratios RTS, amounts AS and ban amounts BS.
Process(RS, PS, ROS, POS, CS, VS, DS, RTS, AS, BS) ==
    \/ \E r \in RS, o \in ROS, v \in VS, ratio \in RTS :
          StartRound(r, o, v, ratio)
    \/ \E r \in RS, c \in CS, v \in VS, a \in AS,
          tp \in TokenPrograms, authOk \in BOOLEAN :
          Donate(r, c, v, a, tp, authOk)
    \/ \E p \in PS, r \in RS, o \in POS : RegisterProject(p, r, o)
    \/ \E p \in PS, q \in PS, c \in CS : InitVoter(VoterPda(q, c), c, p)
    \/ \E r \in RS, p \in PS, q \in PS, d \in CS, c \in CS,
          v \in VS, a \in AS, tp \in TokenPrograms, authOk \in BOOLEAN :
          Vote(r, p, VoterPda(q, d), c, v, a, tp, authOk)
    \/ \E r \in RS, v \in VS, vo \in Users, p \in PS, o \in Users,
          signer \in BOOLEAN, tp \in TokenPrograms, to \in DS :
          Withdraw(r, v, VaultPda(vo), p, o, signer, tp, to)
    \/ \E r \in RS, o \in Users, signer \in BOOLEAN : EndRound(r, o, signer)
    \/ \E r \in RS, o \in Users, signer \in BOOLEAN, v \in VS, vo \in Users,
          tp \in TokenPrograms, to \in DS :
          WithdrawFee(r, o, signer, v, VaultPda(vo), tp, to)
    \/ \E r \in RS, o \in Users, signer \in BOOLEAN, p \in PS, b \in BS :
          BanProject(r, o, signer, p, b)

\* One round with two projects.
Next ==
    Process({"r1"}, {"p1", "p2"}, {"alice"}, {"bob"}, Contributors, Vaults,
            {Dest}, Ratios, Amounts, BanAmounts)

Spec == Init /\ [][Next]_vars

\* ----------------------------------------------------------- properties
\* The sum of a function's values.
RECURSIVE FSum(_)
FSum(f) ==
    IF DOMAIN f = {} THEN 0
    ELSE LET x == CHOOSE y \in DOMAIN f : TRUE
         IN  f[x] + FSum([y \in DOMAIN f \ {x} |-> f[y]])

ProjectsOf(r) == {p \in Projects : project[p].round = r}

\* The Withdraw a project's owner sends: the round's vault under the round
\* owner's derived authority, the owner's signature, the token program.
OwnerWithdrawErr(p) ==
    WithdrawErr(project[p].round, round[project[p].round].vault,
                VaultPda(round[project[p].round].owner), p, project[p].owner,
                TRUE, SplTokenId)

\* C1: no double payout.  Once project.withdraw is true every Withdraw on the
\* project fails (with ProjectAlreadyWithdraw when it names the project's
\* round), so it changes nothing, and at most one Withdraw transfer is ever
\* made for a project.
C1_NoDoublePayout ==
    \A p \in Projects :
        /\ wcount[p] <= 1
        /\ project[p].withdraw <=> wcount[p] = 1
        /\ project[p].withdraw =>
              \A r \in Rounds, v \in Vaults, vo \in Users, o \in Users,
                 signer \in BOOLEAN, tp \in TokenPrograms :
                 LET e == WithdrawErr(r, v, VaultPda(vo), p, o, signer, tp) IN
                 /\ e # "Ok"
                 /\ r = project[p].round => e = "ProjectAlreadyWithdraw"

C1_Witness ==
    \E p \in Projects :
        /\ project[p].withdraw
        /\ wcount[p] = 1
        /\ paid[p] > 0
        /\ bal[round[project[p].round].vault] >= paid[p]
        /\ OwnerWithdrawErr(p) = "ProjectAlreadyWithdraw"

\* C2 (as claimed): each round's round.area is the sum of project.area over
\* exactly the projects whose project.round is that round.
C2_RoundAreaIsProjectSum ==
    \A r \in Rounds :
        round[r].area = FSum([p \in ProjectsOf(r) |-> project[p].area])

\* C3: for a project that no BanProject has changed, area_sqrt is the sum over
\* the project's voters of the fixed-point square root of the voter's
\* cumulative votes, whatever the order and the split of the votes.
RootSum(p) ==
    FSum([c \in Contributors |-> PreciseSqrt(voter[VoterPda(p, c)].votes * ONE)])

C3_AreaSqrtIsRootSum ==
    \A p \in Projects : ~banned[p] => project[p].area_sqrt = RootSum(p)

C3_Witness ==
    \E p \in Projects :
        /\ ~banned[p]
        /\ voter[VoterPda(p, "c1")].votes = 2 * Lot
        /\ voter[VoterPda(p, "c2")].votes = Lot
        /\ project[p].area_sqrt = RootSum(p)

\* C4 (as claimed): project.area is area_sqrt squared in fixed point and
\* descaled, for a project whose area only Vote has set.
C4_AreaIsSquareOfAreaSqrt ==
    \A p \in Projects :
        ~banned[p] =>
            project[p].area \in {(project[p].area_sqrt * project[p].area_sqrt) \div ONE,
                                 PrecisePow(project[p].area_sqrt, 2)}

\* C5: a round's status only moves Uninitialized -> Ongoing -> Finished.
C5_StatusMonotonic ==
    [][\A r \in Rounds :
          \/ round'[r].status = round[r].status
          \/ round[r].status = "Uninitialized" /\ round'[r].status = "Ongoing"
          \/ round[r].status = "Ongoing" /\ round'[r].status = "Finished"]_vars

C5_Witness == \E r \in Rounds : round[r].status = "Finished"

\* C6: on a Finished round Vote, RegisterProject, BanProject, EndRound and
\* Donate return RoundStatusError whatever their other accounts and data, and
\* StartRound on an Ongoing or Finished round returns AccountAlreadyInitialized;
\* a handler that returns an error changes nothing.
C6_FinishedRoundRejects ==
    \A r \in Rounds :
        /\ round[r].status = "Finished" =>
              /\ \A p \in Projects, vk \in VoterKeys, c \in Contributors, v \in Vaults,
                    a \in Amounts, tp \in TokenPrograms, authOk \in BOOLEAN :
                    VoteErr(r, p, vk, c, v, a, tp, authOk) = "RoundStatusError"
              /\ \A p \in Projects : RegisterProjectErr(p, r) = "RoundStatusError"
              /\ \A o \in Users, signer \in BOOLEAN, p \in Projects, b \in BanAmounts :
                    BanProjectErr(r, o, signer, p, b) = "RoundStatusError"
              /\ \A o \in Users, signer \in BOOLEAN :
                    EndRoundErr(r, o, signer) = "RoundStatusError"
              /\ \A c \in Contributors, v \in Vaults, a \in Amounts,
                    tp \in TokenPrograms, authOk \in BOOLEAN :
                    DonateErr(r, c, v, a, tp, authOk) = "RoundStatusError"
        /\ round[r].status \in {"Ongoing", "Finished"} =>
              \A o \in Users, v \in Vaults :
                 StartRoundErr(r, o, v) = "AccountAlreadyInitialized"

C6_Witness ==
    \E r \in Rounds, p \in Projects, c \in Contributors :
        /\ round[r].status = "Finished"
        /\ project[p].round = r
        /\ voter[VoterPda(p, c)].is_initialized
        /\ bal[c] >= Lot

\* C7 (as claimed): what a round's Withdraws have paid out, fees included, is at
\* most round.fund plus the votes of the round's projects, and each Withdraw
\* credits floor(5%) of its payout as fee.
C7_Solvency ==
    /\ \A r \in Rounds :
          FSum([p \in ProjectsOf(r) |-> paid[p] + feeOf[p]])
             <= round[r].fund + FSum([p \in ProjectsOf(r) |-> project[p].votes])
    /\ \A p \in Projects :
          feeOf[p] = ((paid[p] + feeOf[p]) * FeePercent) \div 100

\* C8: round.fee plus what WithdrawFee has transferred equals the fees computed
\* by the round's Withdraws; a WithdrawFee transfers the current round.fee and
\* leaves round.fee = 0.
FeesOf(r) == FSum([p \in ProjectsOf(r) |-> feeOf[p]])

C8_FeeAccounting ==
    /\ [](\A r \in Rounds : round[r].fee + feeOut[r] = FeesOf(r))
    /\ [][\A r \in Rounds :
             feeOut'[r] # feeOut[r] =>
                /\ feeOut'[r] = feeOut[r] + round[r].fee
                /\ bal'[Dest] = bal[Dest] + round[r].fee
                /\ round'[r].fee = 0]_vars

C8_Witness ==
    \E r \in Rounds : feeOut[r] > 0 /\ round[r].fee = 0 /\ FeesOf(r) = feeOut[r]

\* C9 (as claimed): on a Finished round with total_area = 0 the Withdraw of the
\* signing owner of a not yet withdrawn project succeeds.
C9_ZeroAreaWithdrawSucceeds ==
    \A p \in Projects :
        ( /\ ProjectIsInitialized(project[p])
          /\ round[project[p].round].status = "Finished"
          /\ round[project[p].round].total_area = 0
          /\ ~project[p].withdraw )
        => OwnerWithdrawErr(p) = "Ok"

\* C10 (as claimed): with ratio = 1 the capping block of a successful Withdraw
\* leaves the project's credited votes (project.area / ONE) unchanged.
C10_RatioOneLeavesVotes ==
    \A p \in Projects :
        ( /\ ProjectIsInitialized(project[p])
          /\ round[project[p].round].ratio = 1
          /\ OwnerWithdrawErr(p) = "Ok" )
        => CappedVotes(round[project[p].round], project[p].area \div ONE)
              = project[p].area \div ONE

\* C10 (amended): with ratio = 1 the capping block of a successful Withdraw
\* replaces the credited votes by the average a = total_area / project_number
\* when top_area > min_area, and leaves them unchanged when top_area = min_area;
\* the payout is computed from that value.
RatioOneVotes(rd, votes) ==
    IF rd.top_area > rd.min_area THEN rd.total_area \div rd.project_number ELSE votes

C10_RatioOneCapsToAverage ==
    \A p \in Projects :
        LET rd == round[project[p].round] IN
        /\ ( /\ ProjectIsInitialized(project[p])
             /\ rd.ratio = 1
             /\ OwnerWithdrawErr(p) = "Ok" )
           => CappedVotes(rd, project[p].area \div ONE)
                 = RatioOneVotes(rd, project[p].area \div ONE)
        /\ ( /\ ProjectIsInitialized(project[p])
             /\ rd.ratio = 1
             /\ project[p].withdraw )
           => paid[p] + feeOf[p]
                 = project[p].votes
                   + (rd.fund * RatioOneVotes(rd, project[p].area \div ONE))
                        \div rd.total_area

C10_Witness ==
    \E p \in Projects :
        /\ project[p].withdraw
        /\ round[project[p].round].ratio = 1
        /\ round[project[p].round].top_area > round[project[p].round].min_area
        /\ round[project[p].round].fund > 0
        /\ project[p].area \div ONE # CapAverage(round[project[p].round])

\* The credited votes the payout formula of Withdraw uses for project p.
Credited(p) == CappedVotes(round[project[p].round], project[p].area \div ONE)

\* C11 (as claimed): in a Finished round with total_area > 0 and ratio >= 1
\* whose capping block runs without abort, any two projects that received
\* votes have credited(larger) <= ratio * credited(smaller).
C11_AntiWhaleCap ==
    \A r \in Rounds : \A p \in ProjectsOf(r), q \in ProjectsOf(r) :
        ( /\ round[r].status = "Finished"
          /\ round[r].total_area > 0
          /\ round[r].ratio >= 1
          /\ ~CapPanics(round[r])
          /\ project[p].votes > 0
          /\ project[q].votes > 0 )
        => Credited(p) <= round[r].ratio * Credited(q)

\* C12: atomicity on transfer failure.  Donate, Vote, Withdraw and WithdrawFee
\* return Ok only if their token transfer succeeded, so a failed transfer
\* fails the instruction and no record changes; and every step that changes
\* round.fund (of an Ongoing round), voter.votes, project.withdraw or resets
\* round.fee moves exactly the corresponding tokens.
C12_TransferAtomicity ==
    /\ [](/\ \A r \in Rounds, c \in Contributors, v \in Vaults, a \in Amounts,
               tp \in TokenPrograms, authOk \in BOOLEAN :
               /\ DonateErr(r, c, v, a, tp, authOk) = "Ok" => TransferOk(c, authOk, a)
               /\ \A pp \in Projects, vk \in VoterKeys :
                     VoteErr(r, pp, vk, c, v, a, tp, authOk) = "Ok"
                        => TransferOk(c, authOk, a)
          /\ \A r \in Rounds, v \in Vaults, vo \in Users, o \in Users,
               signer \in BOOLEAN, tp \in TokenPrograms :
               /\ \A pp \in Projects :
                     WithdrawErr(r, v, VaultPda(vo), pp, o, signer, tp) = "Ok"
                        => WithdrawTransferOk(round[r], v, VaultPda(vo),
                                              WithdrawAmount(round[r], project[pp]))
               /\ WithdrawFeeErr(r, o, signer, v, VaultPda(vo), tp) = "Ok"
                     => WithdrawTransferOk(round[r], v, VaultPda(vo), round[r].fee))
    /\ [][/\ \A r \in Rounds :
               /\ (round[r].status = "Ongoing" /\ round'[r].fund # round[r].fund)
                     => bal'[round[r].vault] - bal[round[r].vault]
                           = round'[r].fund - round[r].fund
               /\ round'[r].fee < round[r].fee
                     => bal'[Dest] = bal[Dest] + round[r].fee
          /\ \A k \in VoterKeys :
               voter'[k].votes # voter[k].votes
                  => bal[k[2]] - bal'[k[2]] = voter'[k].votes - voter[k].votes
          /\ \A pp \in Projects :
               project'[pp].withdraw # project[pp].withdraw
                  => /\ bal'[Dest] - bal[Dest] = paid'[pp]
                     /\ paid'[pp] = WithdrawAmount(round[project[pp].round], project[pp])
         ]_vars

\* A vote and a donation of one lot whose transfer fails, all else being valid.
C12_Witness ==
    \E r \in Rounds, pp \in Projects, c \in Contributors :
        /\ voter[VoterPda(pp, c)].votes > 0
        /\ bal[c] < Lot
        /\ VoteErr(r, pp, VoterPda(pp, c), c, round[r].vault, Lot, SplTokenId, TRUE)
              = "TransferFailed"
        /\ DonateErr(r, c, round[r].vault, Lot, SplTokenId, TRUE) = "TransferFailed"

\* C13: voter binding.  A Vote returns Ok only with the voter record derived
\* from (project, contributor); with any other existing voter record an
\* otherwise valid Vote returns VoterMismatch.  So a voter record changes only
\* together with its own project and its own contributor's wallet, and a
\* project's votes are the sum of the votes of its own voter records.
C13_VoterBinding ==
    /\ [](/\ \A r \in Rounds, pp \in Projects, vk \in VoterKeys, c \in Contributors,
               v \in Vaults, a \in Amounts, tp \in TokenPrograms, authOk \in BOOLEAN :
               /\ VoteErr(r, pp, vk, c, v, a, tp, authOk) = "Ok" => vk = VoterPda(pp, c)
               /\ ( /\ vk # VoterPda(pp, c)
                    /\ VoterIsInitialized(voter[vk])
                    /\ VoteErr(r, pp, VoterPda(pp, c), c, v, a, tp, authOk) = "Ok" )
                  => VoteErr(r, pp, vk, c, v, a, tp, authOk) = "VoterMismatch"
          /\ \A pp \in Projects :
               project[pp].votes
                  = FSum([c \in Contributors |-> voter[VoterPda(pp, c)].votes]))
    /\ [][\A k \in VoterKeys :
             (voter'[k] # voter[k] /\ VoterIsInitialized(voter[k]))
                => /\ project'[k[1]].votes - project[k[1]].votes
                         = voter'[k].votes - voter[k].votes
                   /\ bal[k[2]] - bal'[k[2]] = voter'[k].votes - voter[k].votes
                   /\ \A j \in VoterKeys \ {k} : voter'[j] = voter[j]]_vars

\* A contributor with two voter records, one per project, both voted: a Vote
\* on the first project with the record of the second is a VoterMismatch.
C13_Witness ==
    \E r \in Rounds, pp \in Projects, q \in Projects, c \in Contributors :
        /\ pp # q
        /\ voter[VoterPda(pp, c)].votes > 0
        /\ voter[VoterPda(q, c)].votes > 0
        /\ VoteErr(r, pp, VoterPda(pp, c), c, round[r].vault, 0, SplTokenId, TRUE) = "Ok"
        /\ VoteErr(r, pp, VoterPda(q, c), c, round[r].vault, 0, SplTokenId, TRUE)
              = "VoterMismatch"

NotFinishedError(r) ==
    IF round[r].status = "Ongoing" THEN "RoundStatusError" ELSE "UninitializedAccount"

C15_WithdrawAuthorization ==
    \A r \in Rounds, pp \in Projects, v \in Vaults, vo \in Users, o \in Users,
       signer \in BOOLEAN, tp \in TokenPrograms :
       LET e == WithdrawErr(r, v, VaultPda(vo), pp, o, signer, tp) IN
       /\ e = "Ok" => signer /\ o = project[pp].owner /\ project[pp].round = r
       /\ ( /\ round[r].status = "Finished"
            /\ ProjectIsInitialized(project[pp])
            /\ ~project[pp].withdraw )
          => /\ project[pp].round # r => e = "RoundMismatch"
             /\ (project[pp].round = r /\ ~signer) => e = "MissingRequiredSignature"
             /\ (project[pp].round = r /\ signer /\ o # project[pp].owner)
                   => e = "OwnerMismatch"

\* Two Finished rounds and a project of the first that its owner can withdraw:
\* the three refusals happen for the other round, no signature, another owner.
C15_Witness ==
    \E r \in Rounds, q \in Rounds, pp \in Projects, o \in Users :
        /\ q # r
        /\ round[q].status = "Finished"
        /\ o # project[pp].owner
        /\ project[pp].round = r
        /\ OwnerWithdrawErr(pp) = "Ok"
        /\ WithdrawErr(q, round[r].vault, VaultPda(round[r].owner), pp,
                       project[pp].owner, TRUE, SplTokenId) = "RoundMismatch"
        /\ WithdrawErr(r, round[r].vault, VaultPda(round[r].owner), pp,
                       project[pp].owner, FALSE, SplTokenId) = "MissingRequiredSignature"
        /\ WithdrawErr(r, round[r].vault, VaultPda(round[r].owner), pp, o, TRUE,
                       SplTokenId) = "OwnerMismatch"

\* C16: round-owner authorization.  EndRound, BanProject and WithdrawFee return
\* Ok only for an owner account equal to round.owner that signed; in the status
\* the handler accepts, another owner gets OwnerMismatch and the owner without
\* signature gets MissingRequiredSignature.
C16_RoundOwnerAuthorization ==
    \A r \in Rounds, o \in Users, signer \in BOOLEAN :
       /\ \A pp \in Projects, b \in BanAmounts :
             LET e == BanProjectErr(r, o, signer, pp, b) IN
             /\ e = "Ok" => o = round[r].owner /\ signer
             /\ round[r].status = "Ongoing" =>
                   /\ o # round[r].owner => e = "OwnerMismatch"
                   /\ (o = round[r].owner /\ ~signer) => e = "MissingRequiredSignature"
       /\ LET e == EndRoundErr(r, o, signer) IN
             /\ e = "Ok" => o = round[r].owner /\ signer
             /\ round[r].status = "Ongoing" =>
                   /\ o # round[r].owner => e = "OwnerMismatch"
                   /\ (o = round[r].owner /\ ~signer) => e = "MissingRequiredSignature"
       /\ \A v \in Vaults, vo \in Users, tp \in TokenPrograms :
             LET e == WithdrawFeeErr(r, o, signer, v, VaultPda(vo), tp) IN
             /\ e = "Ok" => o = round[r].owner /\ signer
             /\ round[r].status = "Finished" =>
                   /\ o # round[r].owner => e = "OwnerMismatch"
                   /\ (o = round[r].owner /\ ~signer) => e = "MissingRequiredSignature"

\* A round whose owner banned a project, ended it and drew the fee; a further
\* WithdrawFee by somebody else or without signature is refused.
C16_Witness ==
    \E r \in Rounds, pp \in Projects, o \in Users :
        /\ o # round[r].owner
        /\ round[r].status = "Finished"
        /\ project[pp].round = r
        /\ banned[pp]
        /\ feeOut[r] > 0
        /\ WithdrawFeeErr(r, round[r].owner, TRUE, round[r].vault,
                          VaultPda(round[r].owner), SplTokenId) = "Ok"
        /\ WithdrawFeeErr(r, o, TRUE, round[r].vault, VaultPda(round[r].owner),
                          SplTokenId) = "OwnerMismatch"
        /\ WithdrawFeeErr(r, round[r].owner, FALSE, round[r].vault,
                          VaultPda(round[r].owner), SplTokenId)
              = "MissingRequiredSignature"

\* The projects of round r that have received votes.
VotedProjects(r) == {pp \in ProjectsOf(r) : project[pp].votes > 0}

\* C17 (as claimed): in a round without banned projects, with a voted project
\* and where only projects with votes have voters (no Vote of amount 0 on an
\* unvoted project), round.min_area is the minimum over the voted projects of
\* project.area / ONE, and round.min_area_p is a project attaining it.
C17_MinAreaIsMinimum ==
    \A r \in Rounds :
        ( /\ VotedProjects(r) # {}
          /\ \A pp \in Projects : ~banned[pp]
          /\ \A pp \in ProjectsOf(r) \ VotedProjects(r), c \in Contributors :
                ~VoterIsInitialized(voter[VoterPda(pp, c)]) )
        => /\ \A pp \in VotedProjects(r) : round[r].min_area <= project[pp].area \div ONE
           /\ round[r].min_area_p \in VotedProjects(r)
           /\ project[round[r].min_area_p].area \div ONE = round[r].min_area

\* C18 (as claimed): in an initialized round, round.total_area is round.area
\* descaled, floor(round.area / ONE).
C18_TotalAreaIsAreaDescaled ==
    \A r \in Rounds :
        RoundIsInitialized(round[r]) => round[r].total_area = round[r].area \div ONE

\* C19 (as claimed): every successful Vote on a project, also after BanProject
\* on it, leaves project.area and project.area_sqrt greater than or equal to
\* their values before the Vote.
C19_VoteNeverDecreasesArea ==
    \A r \in Rounds, pp \in Projects, vk \in VoterKeys, c \in Contributors,
       v \in Vaults, a \in Amounts, tp \in TokenPrograms, authOk \in BOOLEAN :
       VoteErr(r, pp, vk, c, v, a, tp, authOk) = "Ok"
          => /\ VoteArea(pp, vk, a) >= project[pp].area
             /\ VoteAreaSqrt(pp, vk, a) >= project[pp].area_sqrt

U64 == 0 .. U64Max

\* Every stored counter is in the range of its field.
CountersInRange ==
    /\ \A r \in Rounds :
          /\ round[r].fund \in U64 /\ round[r].fee \in U64
          /\ round[r].project_number = Cardinality(ProjectsOf(r))
          /\ round[r].area >= 0 /\ round[r].total_area >= 0
    /\ \A pp \in Projects :
          /\ project[pp].votes \in U64 /\ paid[pp] \in U64
          /\ project[pp].area >= 0 /\ project[pp].area_sqrt >= 0
          /\ project[pp].votes
                = FSum([c \in Contributors |-> voter[VoterPda(pp, c)].votes])
    /\ \A k \in VoterKeys : voter[k].votes \in U64 /\ voter[k].votes_sqrt >= 0

\* A handler returns Ok only if none of its additions exceeds u64 and none of
\* its subtractions goes below zero.
OkOnlyIfExactFits ==
    \A r \in Rounds :
       /\ \A c \in Contributors, v \in Vaults, a \in Amounts, tp \in TokenPrograms,
             authOk \in BOOLEAN :
             /\ DonateErr(r, c, v, a, tp, authOk) = "Ok" => round[r].fund + a \in U64
             /\ \A pp \in Projects, vk \in VoterKeys :
                   VoteErr(r, pp, vk, c, v, a, tp, authOk) = "Ok"
                      => /\ voter[vk].votes + a \in U64
                         /\ project[pp].votes + a \in U64
                         /\ project[pp].area_sqrt >= voter[vk].votes_sqrt
                         /\ round[r].area >= project[pp].area
       /\ \A pp \in Projects :
             RegisterProjectErr(pp, r) = "Ok" => round[r].project_number + 1 \in U64
       /\ \A o \in Users, signer \in BOOLEAN, pp \in Projects, b \in BanAmounts :
             BanProjectErr(r, o, signer, pp, b) = "Ok"
                => project[pp].area >= b /\ round[r].area >= b
       /\ \A v \in Vaults, vo \in Users, o \in Users, signer \in BOOLEAN,
             tp \in TokenPrograms, pp \in Projects :
             WithdrawErr(r, v, VaultPda(vo), pp, o, signer, tp) = "Ok"
                => /\ ~CapPanics(round[r])
                   /\ WithdrawAmount(round[r], project[pp]) \in U64
                   /\ round[r].fee + WithdrawFeeOf(PayoutBase(round[r], project[pp]))
                         \in U64

\* Every change of a counter is by the exact amount of the operation.
ExactSteps ==
    /\ \A r \in Rounds :
          /\ (round[r].status = "Ongoing" /\ round'[r].fund # round[r].fund)
                => /\ round'[r].fund > round[r].fund
                   /\ round'[r].fund - round[r].fund
                         = bal'[round[r].vault] - bal[round[r].vault]
          /\ round'[r].fee > round[r].fee
                => round'[r].fee - round[r].fee
                      = FSum([pp \in Projects |-> feeOf'[pp] - feeOf[pp]])
          /\ (round[r].status = "Ongoing"
                /\ round'[r].project_number # round[r].project_number)
                => round'[r].project_number = round[r].project_number + 1
    /\ \A k \in VoterKeys :
          voter'[k].votes # voter[k].votes
             => /\ voter'[k].votes > voter[k].votes
                /\ voter'[k].votes - voter[k].votes = bal[k[2]] - bal'[k[2]]
                /\ project'[k[1]].votes - project[k[1]].votes
                      = voter'[k].votes - voter[k].votes

\* C20: no silent wraparound.  Every stored counter stays in the range of its
\* field, a handler returns Ok only if the exact result of each of its
\* additions fits u64 and none of its subtractions goes below zero, and every
\* change of a counter is by the exact amount of the operation.
C20_NoWraparound == [](CountersInRange /\ OkOnlyIfExactFits) /\ [][ExactSteps]_vars

\* An Ongoing round whose fund is so large that one more lot does not fit
\* u64, and a contributor who holds that lot: the Donate aborts.
C20_Witness ==
    \E r \in Rounds :
        /\ round[r].status = "Ongoing"
        /\ bal["c1"] >= Lot
        /\ round[r].fund + Lot > U64Max
        /\ TransferOk("c1", TRUE, Lot)
        /\ DonateErr(r, "c1", round[r].vault, Lot, SplTokenId, TRUE) = "Panic"

\* C21: payout formula.  A Withdraw succeeds only with round.total_area > 0,
\* and the step that sets project.withdraw transfers payout_base - fee to the
\* destination, where v is the credited votes after the capping block,
\* payout_base = project.votes + floor(round.fund * v / round.total_area) and
\* fee = floor(payout_base * 5 / 100); round.fee grows by exactly fee and
\* round.fund does not change.
ClaimedPayoutBase(p) ==
    project[p].votes
       + (round[project[p].round].fund * Credited(p))
            \div round[project[p].round].total_area

ClaimedFee(p) == (ClaimedPayoutBase(p) * 5) \div 100

C21_PayoutFormula ==
    /\ [](\A r \in Rounds, v \in Vaults, vo \in Users, pp \in Projects, o \in Users,
             signer \in BOOLEAN, tp \in TokenPrograms :
             WithdrawErr(r, v, VaultPda(vo), pp, o, signer, tp) = "Ok"
                => round[r].total_area > 0)
    /\ [][\A pp \in Projects :
             (project'[pp].withdraw /\ ~project[pp].withdraw)
                => /\ round[project[pp].round].total_area > 0
                   /\ bal'[Dest] - bal[Dest] = ClaimedPayoutBase(pp) - ClaimedFee(pp)
                   /\ round'[project[pp].round].fee
                         = round[project[pp].round].fee + ClaimedFee(pp)
                   /\ round'[project[pp].round].fund = round[project[pp].round].fund
                   /\ \A r \in Rounds : round'[r].fund = round[r].fund
                   /\ \A q \in Projects \ {pp} : project'[q] = project[q]
                   /\ project'[pp] = [project[pp] EXCEPT !.withdraw = TRUE]]_vars

\* A project paid out of a round with matching funds: it got its own votes and
\* a share of the fund, and a non-zero fee was kept back.
C21_Witness ==
    \E pp \in Projects :
        /\ project[pp].withdraw
        /\ round[project[pp].round].fund > 0
        /\ project[pp].votes > 0
        /\ feeOf[pp] > 0
        /\ paid[pp] + feeOf[pp] > project[pp].votes
        /\ bal[Dest] >= paid[pp]

\* C22: round.project_number is the number of initialized Project records
\* whose project.round is the round.  RegisterProject succeeds only on an
\* Ongoing round; the step that changes project_number raises it by exactly 1
\* and creates one project of that round with withdraw = false, votes = 0 and
\* area = 0; no step changes the round or the owner of an initialized project.
RegisteredIn(r) ==
    {pp \in Projects : ProjectIsInitialized(project[pp]) /\ project[pp].round = r}

C22_ProjectNumberCounts ==
    /\ [](\A r \in Rounds :
             /\ round[r].project_number = Cardinality(RegisteredIn(r))
             /\ \A pp \in Projects :
                   RegisterProjectErr(pp, r) = "Ok" => round[r].status = "Ongoing")
    /\ [][/\ \A r \in Rounds :
               round'[r].project_number # round[r].project_number
                  => /\ round[r].status = "Ongoing"
                     /\ round'[r].project_number = round[r].project_number + 1
                     /\ \E pp \in Projects :
                           /\ ~ProjectIsInitialized(project[pp])
                           /\ project'[pp].round = r
                           /\ project'[pp].owner # NoKey
                           /\ ~project'[pp].withdraw
                           /\ project'[pp].votes = 0
                           /\ project'[pp].area = 0
                           /\ \A q \in Projects \ {pp} : project'[q] = project[q]
          /\ \A pp \in Projects :
               ProjectIsInitialized(project[pp])
                  => /\ project'[pp].round = project[pp].round
                     /\ project'[pp].owner = project[pp].owner
          /\ \A pp \in Projects :
               (~ProjectIsInitialized(project[pp]) /\ project'[pp] # project[pp])
                  => round'[project'[pp].round].project_number
                        = round[project'[pp].round].project_number + 1]_vars

\* Both rounds have registered projects, one of them after votes, a ban and
\* the end of the other round.
C22_Witness ==
    \E r \in Rounds, q \in Rounds :
        /\ r # q
        /\ round[r].project_number = 2
        /\ round[q].project_number = 1
        /\ round[r].status = "Finished"
        /\ \E pp \in RegisteredIn(r) : banned[pp]

\* C23: sentinel-guarded creation and use.  RegisterProject on an initialized
\* project fails (with AccountAlreadyInitialized when the round is one the
\* handler accepts, i.e. Ongoing) and InitVoter on an initialized voter fails;
\* Vote, Withdraw and BanProject fail on an uninitialized project, Vote on an
\* uninitialized voter, and every handler that reads a round fails with
\* UninitializedAccount on an uninitialized round.  No step resets a field of an
\* initialized project or voter, and an uninitialized record changes only by
\* being created.
C23_SentinelGuards ==
    /\ [](/\ \A pp \in Projects, r \in Rounds :
               ProjectIsInitialized(project[pp])
                  => /\ RegisterProjectErr(pp, r) # "Ok"
                     /\ round[r].status = "Ongoing"
                           => RegisterProjectErr(pp, r) = "AccountAlreadyInitialized"
          /\ \A vk \in VoterKeys, c \in Contributors, pp \in Projects :
               VoterIsInitialized(voter[vk]) => InitVoterErr(vk, c, pp) # "Ok"
          /\ \A r \in Rounds, pp \in Projects, vk \in VoterKeys, c \in Contributors,
                v \in Vaults, a \in Amounts, tp \in TokenPrograms, authOk \in BOOLEAN :
               (~ProjectIsInitialized(project[pp]) \/ ~VoterIsInitialized(voter[vk])
                   \/ ~RoundIsInitialized(round[r]))
                  => VoteErr(r, pp, vk, c, v, a, tp, authOk)
                        \in {"UninitializedAccount", "IncorrectProgramId",
                             "RoundStatusError", "VaultMismatch", "RoundMismatch"}
          /\ \A r \in Rounds, pp \in Projects, o \in Users, signer \in BOOLEAN :
               (~ProjectIsInitialized(project[pp]) \/ ~RoundIsInitialized(round[r]))
                  => /\ \A b \in BanAmounts : BanProjectErr(r, o, signer, pp, b) # "Ok"
                     /\ \A v \in Vaults, vo \in Users, tp \in TokenPrograms :
                           WithdrawErr(r, v, VaultPda(vo), pp, o, signer, tp) # "Ok"
          /\ \A r \in Rounds :
               ~RoundIsInitialized(round[r])
                  => /\ \A c \in Contributors, v \in Vaults, a \in Amounts,
                           tp \in TokenPrograms, authOk \in BOOLEAN :
                           /\ DonateErr(r, c, v, a, tp, authOk) = "UninitializedAccount"
                           /\ \A pp \in Projects, vk \in VoterKeys :
                                 VoteErr(r, pp, vk, c, v, a, tp, authOk)
                                    = "UninitializedAccount"
                     /\ \A pp \in Projects :
                           RegisterProjectErr(pp, r) = "UninitializedAccount"
                     /\ \A o \in Users, signer \in BOOLEAN :
                           /\ EndRoundErr(r, o, signer) = "UninitializedAccount"
                           /\ \A pp \in Projects, b \in BanAmounts :
                                 BanProjectErr(r, o, signer, pp, b)
                                    = "UninitializedAccount"
                           /\ \A v \in Vaults, vo \in Users, tp \in TokenPrograms :
                                 /\ WithdrawFeeErr(r, o, signer, v, VaultPda(vo), tp)
                                       = "UninitializedAccount"
                                 /\ \A pp \in Projects :
                                       WithdrawErr(r, v, VaultPda(vo), pp, o, signer, tp)
                                          = "UninitializedAccount")
    /\ [][/\ \A pp \in Projects :
               IF ProjectIsInitialized(project[pp])
               THEN /\ project'[pp].round = project[pp].round
                    /\ project'[pp].owner = project[pp].owner
                    /\ project'[pp].votes >= project[pp].votes
                    /\ project[pp].withdraw => project'[pp].withdraw
               ELSE project'[pp] # project[pp]
                       => /\ ProjectIsInitialized(project'[pp])
                          /\ project'[pp].votes = 0 /\ project'[pp].area = 0
          /\ \A k \in VoterKeys :
               IF VoterIsInitialized(voter[k])
               THEN /\ VoterIsInitialized(voter'[k])
                    /\ voter'[k].votes >= voter[k].votes
                    /\ voter'[k].votes_sqrt >= voter[k].votes_sqrt
               ELSE voter'[k] # voter[k]
                       => voter'[k] = [is_initialized |-> TRUE, votes |-> 0,
                                       votes_sqrt |-> 0]
          /\ \A r \in Rounds :
               (~RoundIsInitialized(round[r]) /\ round'[r] # round[r])
                  => round'[r].status = "Ongoing"]_vars

\* An Ongoing round with a voted project and its voter, next to a project, a
\* voter and a round that were never created: re-creation and use are refused.
C23_Witness ==
    \E r \in Rounds, q \in Rounds, pp \in Projects, np \in Projects, c \in Contributors :
        /\ round[r].status = "Ongoing"
        /\ ~RoundIsInitialized(round[q])
        /\ project[pp].round = r
        /\ voter[VoterPda(pp, c)].votes > 0
        /\ ~ProjectIsInitialized(project[np])
        /\ RegisterProjectErr(pp, r) = "AccountAlreadyInitialized"
        /\ InitVoterErr(VoterPda(pp, c), c, pp) = "InvokeFailed"
        /\ VoteErr(r, np, VoterPda(pp, c), c, round[r].vault, 0, SplTokenId, TRUE)
              = "UninitializedAccount"
        /\ BanProjectErr(r, round[r].owner, TRUE, np, MaxBan * ONE)
              = "UninitializedAccount"
        /\ DonateErr(q, c, round[r].vault, 0, SplTokenId, TRUE) = "UninitializedAccount"

\* C24: BanProject effect.  A successful BanProject(ban_amount) happens on an
\* Ongoing round, lowers project.area and round.area by exactly ban_amount,
\* sets project.area_sqrt to sqrt(area / ONE) rescaled, and leaves
\* project.votes, round.fund, round.fee, every voter and every balance as they
\* were; with ban_amount above the project's or the round's area it fails (by
\* abort, when the instruction is otherwise valid).
C24_BanProjectEffect ==
    /\ [](\A r \in Rounds, o \in Users, signer \in BOOLEAN, pp \in Projects,
             b \in BanAmounts :
             (project[pp].area < b \/ round[r].area < b)
                => /\ BanProjectErr(r, o, signer, pp, b) # "Ok"
                   /\ ( /\ round[r].status = "Ongoing"
                        /\ o = round[r].owner /\ signer
                        /\ ProjectIsInitialized(project[pp]) )
                      => BanProjectErr(r, o, signer, pp, b) = "Panic")
    /\ [][\A r \in Rounds, o \in Users, signer \in BOOLEAN, pp \in Projects,
             b \in BanAmounts :
             BanProject(r, o, signer, pp, b)
                => /\ round[r].status = "Ongoing"
                   /\ project'[pp].area = project[pp].area - b
                   /\ round'[r].area = round[r].area - b
                   /\ project'[pp].area >= 0 /\ round'[r].area >= 0
                   /\ project'[pp].area_sqrt
                         = PreciseSqrt((project[pp].area - b) \div ONE) * BanScale
                   /\ project'[pp].votes = project[pp].votes
                   /\ round'[r].fund = round[r].fund
                   /\ round'[r].fee = round[r].fee
                   /\ voter' = voter
                   /\ bal' = bal]_vars

\* A project whose area a ban has reduced below the ban amount: the next
\* BanProject of the round's owner aborts.
C24_Witness ==
    \E r \in Rounds, pp \in Projects :
        /\ round[r].status = "Ongoing"
        /\ project[pp].round = r
        /\ banned[pp]
        /\ project[pp].votes > 0
        /\ project[pp].area > 0
        /\ project[pp].area < MaxBan * ONE
        /\ BanProjectErr(r, round[r].owner, TRUE, pp, MaxBan * ONE) = "Panic"

\* C25 (as claimed): in a Finished round with total_area > 0 the Withdraw of
\* the signing owner of a not yet withdrawn project, with the round's vault
\* under the round owner's authority, does not abort: it succeeds, or the
\* vault holds less than the computed amount.
C25_WithdrawAvailable ==
    \A pp \in Projects :
        ( /\ ProjectIsInitialized(project[pp])
          /\ round[project[pp].round].status = "Finished"
          /\ round[project[pp].round].total_area > 0
          /\ ~project[pp].withdraw )
        => OwnerWithdrawErr(pp) \in {"Ok", "TransferFailed"}

\* C26 (as claimed): a BanProject naming a round other than the project's own
\* round is rejected, whoever signs it.
C26_BanProjectRoundIsolation ==
    \A r \in Rounds, o \in Users, signer \in BOOLEAN, pp \in Projects,
       b \in BanAmounts :
       (ProjectIsInitialized(project[pp]) /\ project[pp].round # r)
          => BanProjectErr(r, o, signer, pp, b) # "Ok"

\* C27 (as claimed): in an Ongoing round a Vote on a project of the round by an
\* initialized voter bound to (project, contributor), paid into the round's
\* vault, whose transfer succeeds and whose cumulative amounts fit u64,
\* succeeds.
C27_VoteAvailable ==
    \A r \in Rounds, pp \in Projects, c \in Contributors, a \in Amounts :
        ( /\ round[r].status = "Ongoing"
          /\ ProjectIsInitialized(project[pp])
          /\ project[pp].round = r
          /\ VoterIsInitialized(voter[VoterPda(pp, c)])
          /\ TransferOk(c, TRUE, a)
          /\ voter[VoterPda(pp, c)].votes + a <= U64Max
          /\ project[pp].votes + a <= U64Max )
        => VoteErr(r, pp, VoterPda(pp, c), c, round[r].vault, a, SplTokenId, TRUE) = "Ok"

\* The records a Vote reads and writes: the round, the projects, the voters.
VoteRecords(r) == [round |-> round[r], project |-> project, voter |-> voter]

\* process_vote on such records, after its checks: the records it packs when
\* contributor c votes `amount` on project p.
VoteOn(w, p, c, amount) ==
    LET vk == VoterPda(p, c)
        new_votes_sqrt == PreciseSqrt((w.voter[vk].votes + amount) * ONE)
        area_sqrt == w.project[p].area_sqrt - w.voter[vk].votes_sqrt + new_votes_sqrt
        area == PrecisePow(area_sqrt, 1)
        round_area == w.round.area - w.project[p].area + area
        ex == VoteExtrema(w.round, p, area \div ONE)
    IN  [round |-> [ex EXCEPT !.area = round_area, !.total_area = round_area \div ONE],
         project |-> [w.project EXCEPT ![p] =
                         [@ EXCEPT !.area = area, !.area_sqrt = area_sqrt,
                                   !.votes = @ + amount]],
         voter |-> [w.voter EXCEPT ![vk] =
                       [@ EXCEPT !.votes = @ + amount, !.votes_sqrt = new_votes_sqrt]]]

\* The Round fields the payouts are computed from.
RoundOutcome(w) ==
    <<w.round.area, w.round.total_area, w.round.top_area, w.round.min_area>>

\* C28 (as claimed): without BanProject, two Votes of positive amounts that
\* can both be made give the same round.area, total_area, top_area and
\* min_area in either order.
C28_VoteOrderIndependent ==
    \A r \in Rounds, p \in Projects, q \in Projects, c \in Contributors,
       d \in Contributors, a \in Amounts \ {0}, b \in Amounts \ {0} :
       ( /\ round[r].status = "Ongoing"
         /\ \A x \in Projects : ~banned[x]
         /\ project[p].round = r /\ project[q].round = r
         /\ VoterIsInitialized(voter[VoterPda(p, c)])
         /\ VoterIsInitialized(voter[VoterPda(q, d)])
         /\ bal[c] >= a /\ bal[d] >= b
         /\ c = d => bal[c] >= a + b
         /\ project[p].votes + a + b <= U64Max
         /\ project[q].votes + a + b <= U64Max )
       => RoundOutcome(VoteOn(VoteOn(VoteRecords(r), p, c, a), q, d, b))
             = RoundOutcome(VoteOn(VoteOn(VoteRecords(r), q, d, b), p, c, a))

\* C29: project.votes is the sum of voter.votes over the project's voter
\* records, and voter.votes_sqrt is the fixed-point square root of
\* voter.votes * ONE (0 for a fresh voter); project.votes and voter.votes never
\* decrease, and a step that changes either is a Vote on that project.
C29_VotesBookkeeping ==
    /\ [](/\ \A pp \in Projects :
               project[pp].votes
                  = FSum([k \in {j \in VoterKeys : j[1] = pp} |-> voter[k].votes])
          /\ \A k \in VoterKeys :
               /\ voter[k].votes_sqrt = PreciseSqrt(voter[k].votes * ONE)
               /\ ~VoterIsInitialized(voter[k]) => voter[k].votes = 0)
    /\ [][/\ \A pp \in Projects : project'[pp].votes >= project[pp].votes
          /\ \A k \in VoterKeys : voter'[k].votes >= voter[k].votes
          /\ \A k \in VoterKeys :
               (voter'[k].votes # voter[k].votes
                   \/ project'[k[1]].votes # project[k[1]].votes)
                  => \E r \in Rounds, c \in Contributors, a \in Amounts \ {0} :
                        /\ Vote(r, k[1], VoterPda(k[1], c), c, round[r].vault, a,
                                SplTokenId, TRUE)
                        /\ project'[k[1]].votes = project[k[1]].votes + a
                        /\ voter'[VoterPda(k[1], c)].votes
                              = voter[VoterPda(k[1], c)].votes + a
          /\ \A k \in VoterKeys :
               (VoterIsInitialized(voter'[k]) /\ ~VoterIsInitialized(voter[k]))
                  => voter'[k].votes = 0 /\ voter'[k].votes_sqrt = 0]_vars

\* A project with two voters, one of whom voted twice, banned afterwards.
C29_Witness ==
    \E pp \in Projects :
        /\ banned[pp]
        /\ voter[VoterPda(pp, "c1")].votes = 2 * Lot
        /\ voter[VoterPda(pp, "c2")].votes = Lot
        /\ project[pp].votes = 3 * Lot
        /\ voter[VoterPda(pp, "c1")].votes_sqrt > voter[VoterPda(pp, "c2")].votes_sqrt

\* Two rounds on one vault.  The starting state is the one the program is in
\* after StartRound(r1, alice, va, ratio 2), Donate(r1, c1, one lot),
\* RegisterProject(p1, r1), RegisterProject(p3, r1), InitVoter for (p1, c1),
\* (p3, c1), (p3, c2) and one Vote of one lot through each of these voters, in
\* that order, from wallets c1 = 4 lots and c2 = 1 lot; r2 and p2 are untouched.
LotRoot == PreciseSqrt(Lot * ONE)

ProjectTwo(p) ==
    IF p = "p1"
    THEN [round |-> "r1", owner |-> "bob", withdraw |-> FALSE, votes |-> Lot,
          area |-> PrecisePow(LotRoot, 1), area_sqrt |-> LotRoot]
    ELSE IF p = "p3"
    THEN [round |-> "r1", owner |-> "bob", withdraw |-> FALSE, votes |-> 2 * Lot,
          area |-> PrecisePow(2 * LotRoot, 1), area_sqrt |-> 2 * LotRoot]
    ELSE ProjectDefault

RoundTwo(r) ==
    IF r = "r1"
    THEN [status |-> "Ongoing", ratio |-> 2, fund |-> Lot, fee |-> 0,
          project_number |-> 2, vault |-> "va", owner |-> "alice",
          area |-> ProjectTwo("p1").area + ProjectTwo("p3").area,
          total_area |-> (ProjectTwo("p1").area + ProjectTwo("p3").area) \div ONE,
          top_area |-> ProjectTwo("p3").area \div ONE,
          min_area |-> ProjectTwo("p1").area \div ONE,
          min_area_p |-> "p1"]
    ELSE RoundDefault

InitTwo ==
    /\ round = [r \in Rounds |-> RoundTwo(r)]
    /\ project = [p \in Projects |-> ProjectTwo(p)]
    /\ voter = [k \in VoterKeys |->
                  IF k \in {<<"p1", "c1">>, <<"p3", "c1">>, <<"p3", "c2">>}
                  THEN [is_initialized |-> TRUE, votes |-> Lot, votes_sqrt |-> LotRoot]
                  ELSE VoterDefault]
    /\ bal = [a \in TokenAccounts |->
                IF a = "c1" THEN Lot ELSE IF a = "va" THEN 4 * Lot ELSE 0]
    /\ paid = [p \in Projects |-> 0]
    /\ feeOf = [p \in Projects |-> 0]
    /\ wcount = [p \in Projects |-> 0]
    /\ feeOut = [r \in Rounds |-> 0]
    /\ banned = [p \in Projects |-> FALSE]

NextTwo ==
    Process(Rounds, Projects, {"alice"}, {"bob"}, {"c1"}, {"va"},
            {Dest}, {2}, Amounts, BanAmounts)

SpecTwo == InitTwo /\ [][NextTwo]_vars

\* Two rounds on one vault and one project whose owner has the payout sent to
\* the contributor's wallet, so that the same tokens can be given again.  The
\* wallet starts with as many whole lots as fit u64.
InitCycle ==
    /\ round = [r \in Rounds |-> RoundDefault]
    /\ project = [p \in Projects |-> ProjectDefault]
    /\ voter = [k \in VoterKeys |-> VoterDefault]
    /\ bal = [a \in TokenAccounts |-> IF a = "c1" THEN (U64Max \div Lot) * Lot ELSE 0]
    /\ paid = [p \in Projects |-> 0]
    /\ feeOf = [p \in Projects |-> 0]
    /\ wcount = [p \in Projects |-> 0]
    /\ feeOut = [r \in Rounds |-> 0]
    /\ banned = [p \in Projects |-> FALSE]

NextCycle ==
    Process(Rounds, {"p1"}, {"alice"}, {"bob"}, {"c1"}, {"va"},
            {"c1"}, {2}, {Lot}, BanAmounts)

SpecCycle == InitCycle /\ [][NextCycle]_vars

====
